---- MODULE Spec2Model ----
(***************************************************************************)
(* chirpy: a CHIP-8 virtual machine (src/src/system.rs), its opcode field  *)
(* decoder (src/src/bin.rs), its periphery (src/src/periphery.rs) and the  *)
(* ROM loader (src/src/main.rs), as a state machine.                       *)
(*                                                                         *)
(* One action per step of main and of System::run: load_rom, cycle,        *)
(* get_input, tick_frame, tick_timers, sleep_if_needed.  A panic is the    *)
(* state in which `panic.kind` is not "none"; no action is enabled there.  *)
(*                                                                         *)
(* Rust integer arithmetic that can overflow (`+`, `-=`, `+=` on u16 and   *)
(* usize) panics when the build has overflow checks (cargo's dev profile)  *)
(* and wraps when it has not (cargo's release profile).  The build is the  *)
(* variable `overflow_checks`, chosen once in Init.                        *)
(***************************************************************************)
EXTENDS Integers, Sequences, FiniteSets, TLC

\* ------------------------------------------------------------ constants

MEMORY_SIZE == 4096
TARGET_FPS == 60
CPU_CLOCK_IN_HZ == 1000
CYCLES_PER_FRAME == CPU_CLOCK_IN_HZ \div TARGET_FPS
NANOS_PER_SEC == 1000000000
TIMER_INTERVAL == NANOS_PER_SEC \div 60
FRAME_INTERVAL == NANOS_PER_SEC \div TARGET_FPS
SLEEP_ACCURACY == 1000000
FONTSET_OFFSET == 80
STACK_SIZE == 25
NUM_REGISTERS == 16
SCREEN_WIDTH == 64
SCREEN_HEIGHT == 32
SCREEN_SIZE == 64 * 32
ROM_OFFSET == 512
NO_KEY == 255

\* usize::MAX, kept as its representative modulo 2^64 that is nearest to 0
USIZE_MAX == 0 - 1
U16_MODULUS == 65536
U8_MODULUS == 256

fontset ==
    << 240, 144, 144, 144, 240,
       32, 96, 32, 32, 112,
       240, 16, 240, 128, 240,
       240, 16, 240, 16, 240,
       144, 144, 240, 16, 16,
       240, 128, 240, 16, 240,
       240, 128, 240, 144, 240,
       240, 16, 32, 64, 64,
       240, 144, 240, 144, 240,
       240, 144, 240, 16, 240,
       240, 144, 240, 144, 144,
       224, 144, 224, 144, 224,
       240, 128, 128, 128, 240,
       224, 144, 144, 144, 224,
       240, 128, 240, 128, 240,
       240, 128, 240, 128, 128 >>

\* ------------------------------------------------------------ bin.rs

first_nibble(b) == b \div 4096

\* b >> 8 without the mask
second_nibble_unmasked(b) == b \div 256

second_nibble(b) == (b \div 256) % 16

third_nibble(b) == (b \div 16) % 16

fourth_nibble(b) == b % 16

lower_half(b) == b % 256

lower_three(b) == b % 4096

\* ------------------------------------------------------------ u8 / u16 arithmetic

Pow2(n) == IF n = 0 THEN 1 ELSE IF n = 1 THEN 2 ELSE IF n = 2 THEN 4
           ELSE IF n = 3 THEN 8 ELSE IF n = 4 THEN 16 ELSE IF n = 5 THEN 32
           ELSE IF n = 6 THEN 64 ELSE 128

Bit(v, n) == (v \div Pow2(n)) % 2

\* a | b, a & b, a ^ b on u8
BitOr(a, b) ==
    LET r(n) == IF Bit(a, n) = 1 \/ Bit(b, n) = 1 THEN Pow2(n) ELSE 0
    IN r(0) + r(1) + r(2) + r(3) + r(4) + r(5) + r(6) + r(7)

BitAnd(a, b) ==
    LET r(n) == IF Bit(a, n) = 1 /\ Bit(b, n) = 1 THEN Pow2(n) ELSE 0
    IN r(0) + r(1) + r(2) + r(3) + r(4) + r(5) + r(6) + r(7)

BitXor(a, b) ==
    LET r(n) == IF Bit(a, n) # Bit(b, n) THEN Pow2(n) ELSE 0
    IN r(0) + r(1) + r(2) + r(3) + r(4) + r(5) + r(6) + r(7)

\* u8::wrapping_add
wrapping_add(a, b) == (a + b) % U8_MODULUS

\* u8::overflowing_add, u8::overflowing_sub: <<result, wrapped>>
overflowing_add(a, b) == << (a + b) % U8_MODULUS, a + b >= U8_MODULUS >>

overflowing_sub(a, b) == << (a - b + U8_MODULUS) % U8_MODULUS, a < b >>

\* u8::to_string: the decimal digits, most significant first, no leading zero
to_string(v) ==
    IF v >= 100 THEN << v \div 100, (v \div 10) % 10, v % 10 >>
    ELSE IF v >= 10 THEN << v \div 10, v % 10 >>
    ELSE << v >>

\* ------------------------------------------------------------ panics

NoPanic == [kind |-> "none", opcode |-> 0, address |-> 0]

Panic(s, kind) == [s EXCEPT !.panic = [kind |-> kind, opcode |-> 0, address |-> 0]]

\* an unknown opcode skipped like 0NNN instead of reported
panic_unknown_opcode_skipped(s, opcode) == [s EXCEPT !.program_counter = @ + 2]

panic_unknown_opcode(s, opcode) ==
    [s EXCEPT !.panic = [kind |-> "unknown_opcode", opcode |-> opcode,
                         address |-> s.program_counter]]

\* `self.index_register + i` on u16: does the sum leave u16, and its wrapped value
IndexOverflows(s, i) == s.index_register + i >= U16_MODULUS

\* the address masked to the 12 bits of the address space
IndexPlus_masked(s, i) == (s.index_register + i) % MEMORY_SIZE

IndexPlus(s, i) == (s.index_register + i) % U16_MODULUS

\* ------------------------------------------------------------ System::cycle

\* self.v_registers[to_usize(second_nibble(opcode))], ...[third_nibble(opcode)]
second_nibble_register(s, opcode) == s.v_registers[second_nibble(opcode)]

third_nibble_register(s, opcode) == s.v_registers[third_nibble(opcode)]

SetVx(s, opcode, value) == [s EXCEPT !.v_registers[second_nibble(opcode)] = value]

Advance(s, n) == [s EXCEPT !.program_counter = @ + n]

\* 00E0
op_clear_screen(s) ==
    Advance([s EXCEPT !.framebuffer = [p \in 0..(SCREEN_SIZE - 1) |-> 0]], 2)

\* 00EE: self.program_counter = self.stack[self.stack_pointer]; self.stack_pointer -= 1;
op_return(s) ==
    IF s.stack_pointer \notin 0..(STACK_SIZE - 1)
    THEN Panic(s, "index_out_of_bounds")
    ELSE LET jumped == [s EXCEPT !.program_counter = s.stack[s.stack_pointer]]
         IN IF s.stack_pointer = 0
            THEN IF s.overflow_checks
                 THEN Panic(jumped, "arithmetic_overflow")
                 ELSE [jumped EXCEPT !.stack_pointer = USIZE_MAX]
            ELSE [jumped EXCEPT !.stack_pointer = @ - 1]

\* 0NNN other than 00E0, 00EE reported as an unknown opcode
op_sys_unknown(s) ==
    panic_unknown_opcode(s, s.memory[s.program_counter] * 256
                                + s.memory[s.program_counter + 1])

\* 0NNN other than 00E0, 00EE
op_sys(s) == Advance(s, 2)

\* 1NNN
op_jump(s, opcode) == [s EXCEPT !.program_counter = lower_three(opcode)]

\* 2NNN with the return address written before the stack pointer is incremented
op_call_write_first(s, opcode) ==
    IF s.stack_pointer \notin 0..(STACK_SIZE - 1)
    THEN Panic(s, "index_out_of_bounds")
    ELSE [s EXCEPT !.stack[s.stack_pointer] = s.program_counter + 2,
                   !.stack_pointer = @ + 1,
                   !.program_counter = lower_three(opcode)]

\* 2NNN: self.stack_pointer += 1; self.stack[self.stack_pointer] = pc + 2; pc = NNN
\* (usize::MAX + 1 panics with overflow checks and is 0 without)
op_call(s, opcode) ==
    IF s.stack_pointer = USIZE_MAX /\ s.overflow_checks
    THEN Panic(s, "arithmetic_overflow")
    ELSE LET pushed == [s EXCEPT !.stack_pointer = @ + 1]
         IN IF pushed.stack_pointer \notin 0..(STACK_SIZE - 1)
            THEN Panic(pushed, "index_out_of_bounds")
            ELSE [pushed EXCEPT !.stack[pushed.stack_pointer] = s.program_counter + 2,
                                !.program_counter = lower_three(opcode)]

Skip(s, taken) == IF taken THEN Advance(s, 4) ELSE Advance(s, 2)

\* 3xNN, 4xNN
op_skip_eq_imm(s, opcode) ==
    Skip(s, second_nibble_register(s, opcode) = lower_half(opcode))

op_skip_ne_imm(s, opcode) ==
    Skip(s, ~(second_nibble_register(s, opcode) = lower_half(opcode)))

\* 5xy0, 9xy0
op_skip_eq_reg(s, opcode) ==
    Skip(s, second_nibble_register(s, opcode) = third_nibble_register(s, opcode))

op_skip_ne_reg(s, opcode) ==
    Skip(s, ~(second_nibble_register(s, opcode) = third_nibble_register(s, opcode)))

\* 6xNN, 7xNN
op_set_imm(s, opcode) == Advance(SetVx(s, opcode, lower_half(opcode)), 2)

op_add_imm(s, opcode) ==
    Advance(SetVx(s, opcode,
                  wrapping_add(second_nibble_register(s, opcode), lower_half(opcode))), 2)

\* 8xy0 .. 8xy3
op_mov(s, opcode) == Advance(SetVx(s, opcode, third_nibble_register(s, opcode)), 2)

op_or(s, opcode) ==
    Advance(SetVx(s, opcode, BitOr(second_nibble_register(s, opcode),
                                   third_nibble_register(s, opcode))), 2)

op_and(s, opcode) ==
    Advance(SetVx(s, opcode, BitAnd(second_nibble_register(s, opcode),
                                    third_nibble_register(s, opcode))), 2)

op_xor(s, opcode) ==
    Advance(SetVx(s, opcode, BitXor(second_nibble_register(s, opcode),
                                    third_nibble_register(s, opcode))), 2)

\* 8xy4: the flag is written to v_registers[15] first, the result to Vx second
op_add(s, opcode) ==
    LET r == overflowing_add(second_nibble_register(s, opcode),
                             third_nibble_register(s, opcode))
        flagged == [s EXCEPT !.v_registers[15] = IF r[2] THEN 1 ELSE 0]
    IN Advance(SetVx(flagged, opcode, r[1]), 2)

\* 8xy5
op_sub(s, opcode) ==
    LET r == overflowing_sub(second_nibble_register(s, opcode),
                             third_nibble_register(s, opcode))
        flagged == [s EXCEPT !.v_registers[15] = IF r[2] THEN 0 ELSE 1]
    IN Advance(SetVx(flagged, opcode, r[1]), 2)

\* 8xy6: the flag is written first; `Vx >>= 1` then reads Vx again
op_shr(s, opcode) ==
    LET register_value == second_nibble_register(s, opcode)
        flagged == [s EXCEPT !.v_registers[15] = BitAnd(register_value, 1)]
    IN Advance(SetVx(flagged, opcode, second_nibble_register(flagged, opcode) \div 2), 2)

\* 8xy7
op_subn(s, opcode) ==
    LET r == overflowing_sub(third_nibble_register(s, opcode),
                             second_nibble_register(s, opcode))
        flagged == [s EXCEPT !.v_registers[15] = IF r[2] THEN 0 ELSE 1]
    IN Advance(SetVx(flagged, opcode, r[1]), 2)

\* 8xyE: the flag is written first; `Vx <<= 1` then reads Vx again
op_shl(s, opcode) ==
    LET register_value == second_nibble_register(s, opcode)
        flagged == [s EXCEPT !.v_registers[15] = BitAnd(register_value, 128) \div 128]
    IN Advance(SetVx(flagged, opcode,
                     (second_nibble_register(flagged, opcode) * 2) % U8_MODULUS), 2)

\* ANNN, BNNN, CxNN
op_set_index(s, opcode) == Advance([s EXCEPT !.index_register = lower_three(opcode)], 2)

op_jump_v0(s, opcode) ==
    [s EXCEPT !.program_counter = lower_three(opcode) + s.v_registers[0]]

op_random(s, opcode, rnd) == Advance(SetVx(s, opcode, BitAnd(rnd, lower_half(opcode))), 2)

\* the pixel index with the sprite laid out along the framebuffer array, wrapping
\* at its end only
PixelIndex_linear(top_x, top_y, y_index, x_index) ==
    ((top_y + y_index) * SCREEN_WIDTH + top_x + (7 - x_index)) % SCREEN_SIZE

\* DxyN, inner loop `for x_index in 0..8` of row y_index: the framebuffer index
\* of a pixel and its new value
PixelIndex(top_x, top_y, y_index, x_index) ==
    ((top_y + y_index) % SCREEN_HEIGHT) * SCREEN_WIDTH
        + ((top_x + (7 - x_index)) % SCREEN_WIDTH)

NewValue(bitmap, x_index, old_value) == BitXor(Bit(bitmap, x_index), old_value)

\* a pixel counted as hidden whenever it was set before the write
Hides_when_set(new_value, old_value) == old_value # 0

\* DxyN: `new_value == 0 && self.periphery.framebuffer[framebuffer_index] != 0`
Hides(new_value, old_value) == new_value = 0 /\ old_value # 0

\* the eight writes of the inner loop, in the loop's order (each clause of EXCEPT
\* applies to the result of the one before it), and `hidden` after them; the
\* eight pixels of a row are distinct, so each is read before any write to it
\* <<framebuffer, hidden>>
draw_row(framebuffer, hidden, bitmap, top_x, top_y, y_index) ==
    LET at(x_index) == PixelIndex(top_x, top_y, y_index, x_index)
    IN << [framebuffer EXCEPT ![at(0)] = NewValue(bitmap, 0, @),
                              ![at(1)] = NewValue(bitmap, 1, @),
                              ![at(2)] = NewValue(bitmap, 2, @),
                              ![at(3)] = NewValue(bitmap, 3, @),
                              ![at(4)] = NewValue(bitmap, 4, @),
                              ![at(5)] = NewValue(bitmap, 5, @),
                              ![at(6)] = NewValue(bitmap, 6, @),
                              ![at(7)] = NewValue(bitmap, 7, @)],
          hidden \/ \E x_index \in 0..7 :
                       Hides(NewValue(bitmap, x_index, framebuffer[at(x_index)]),
                             framebuffer[at(x_index)]) >>

\* DxyN, outer loop: the rows y_index..height-1; the state and `hidden`
RECURSIVE draw_rows(_, _, _, _, _, _)
draw_rows(s, hidden, top_x, top_y, y_index, height) ==
    IF y_index >= height THEN << s, hidden >>
    ELSE IF IndexOverflows(s, y_index) /\ s.overflow_checks
         THEN << Panic(s, "arithmetic_overflow"), hidden >>
    ELSE IF IndexPlus(s, y_index) >= MEMORY_SIZE
         THEN << Panic(s, "index_out_of_bounds"), hidden >>
    ELSE LET bitmap == s.memory[IndexPlus(s, y_index)]
             row == draw_row(s.framebuffer, hidden, bitmap, top_x, top_y, y_index)
         IN draw_rows([s EXCEPT !.framebuffer = row[1]], row[2],
                      top_x, top_y, y_index + 1, height)

op_draw(s, opcode) ==
    LET height == fourth_nibble(opcode)
        top_x == second_nibble_register(s, opcode)
        top_y == third_nibble_register(s, opcode)
        drawn == draw_rows(s, FALSE, top_x, top_y, 0, height)
    IN IF drawn[1].panic.kind # "none" THEN drawn[1]
       ELSE Advance([drawn[1] EXCEPT !.v_registers[15] = IF drawn[2] THEN 1 ELSE 0], 2)

\* Ex9E, ExA1
op_skip_key(s, opcode) ==
    Skip(s, s.keyboard_input = second_nibble_register(s, opcode))

op_skip_not_key(s, opcode) ==
    Skip(s, s.keyboard_input # second_nibble_register(s, opcode))

\* Fx07
op_get_delay(s, opcode) == Advance(SetVx(s, opcode, s.delay_timer), 2)

\* Fx0A that never completes
op_wait_key_blocking(s, opcode) == s

\* Fx0A
op_wait_key(s, opcode) ==
    IF s.keyboard_input # NO_KEY
    THEN Advance(SetVx(s, opcode, s.keyboard_input), 2)
    ELSE s

\* Fx15
op_set_delay(s, opcode) ==
    Advance([s EXCEPT !.delay_timer = second_nibble_register(s, opcode)], 2)

\* Fx18; Periphery::play_sound
op_set_sound(s, opcode) ==
    LET set == [s EXCEPT !.sound_timer = second_nibble_register(s, opcode)]
    IN Advance(IF set.sound_timer > 0 THEN [set EXCEPT !.sound_playing = TRUE] ELSE set, 2)

\* Fx1E: u16::wrapping_add
op_add_index(s, opcode) ==
    Advance([s EXCEPT !.index_register =
                 (@ + second_nibble_register(s, opcode)) % U16_MODULUS], 2)

\* Fx29
op_font(s, opcode) ==
    Advance([s EXCEPT !.index_register =
                 second_nibble_register(s, opcode) * 5 + FONTSET_OFFSET], 2)

\* Fx33, the loop `for i in 0..3`: String::pop takes the LAST character of what is
\* left of the string, '0' once it is empty
RECURSIVE store_bcd(_, _, _)
store_bcd(s, number_string, i) ==
    IF i >= 3 THEN s
    ELSE IF IndexOverflows(s, i) /\ s.overflow_checks THEN Panic(s, "arithmetic_overflow")
    ELSE IF IndexPlus(s, i) >= MEMORY_SIZE THEN Panic(s, "index_out_of_bounds")
    ELSE LET popped == IF Len(number_string) = 0 THEN 0
                       ELSE number_string[Len(number_string)]
             rest == IF Len(number_string) = 0 THEN number_string
                     ELSE SubSeq(number_string, 1, Len(number_string) - 1)
         IN store_bcd([s EXCEPT !.memory[IndexPlus(s, i)] = popped], rest, i + 1)

op_bcd(s, opcode) ==
    LET stored == store_bcd(s, to_string(second_nibble_register(s, opcode)), 0)
    IN IF stored.panic.kind # "none" THEN stored ELSE Advance(stored, 2)

\* Fx55, the loop `for i in 0..upper_bound`
RECURSIVE store_registers(_, _, _)
store_registers(s, i, upper_bound) ==
    IF i >= upper_bound THEN s
    ELSE IF IndexOverflows(s, i) /\ s.overflow_checks THEN Panic(s, "arithmetic_overflow")
    ELSE IF IndexPlus(s, i) >= MEMORY_SIZE THEN Panic(s, "index_out_of_bounds")
    ELSE store_registers([s EXCEPT !.memory[IndexPlus(s, i)] = s.v_registers[i]],
                         i + 1, upper_bound)

op_store(s, opcode) ==
    LET stored == store_registers(s, 0, second_nibble(opcode) + 1)
    IN IF stored.panic.kind # "none" THEN stored ELSE Advance(stored, 2)

\* Fx65, the loop `for i in 0..upper_bound`
RECURSIVE load_registers(_, _, _)
load_registers(s, i, upper_bound) ==
    IF i >= upper_bound THEN s
    ELSE IF IndexOverflows(s, i) /\ s.overflow_checks THEN Panic(s, "arithmetic_overflow")
    ELSE IF IndexPlus(s, i) >= MEMORY_SIZE THEN Panic(s, "index_out_of_bounds")
    ELSE load_registers([s EXCEPT !.v_registers[i] = s.memory[IndexPlus(s, i)]],
                        i + 1, upper_bound)

\* the load with the bound exclusive: V0..V(x-1)
op_load_exclusive(s, opcode) ==
    LET loaded == load_registers(s, 0, second_nibble(opcode))
    IN IF loaded.panic.kind # "none" THEN loaded ELSE Advance(loaded, 2)

op_load(s, opcode) ==
    LET loaded == load_registers(s, 0, second_nibble(opcode) + 1)
    IN IF loaded.panic.kind # "none" THEN loaded ELSE Advance(loaded, 2)

\* the opcode matcher
op_family_0(s, opcode) ==
    IF opcode = 224 THEN op_clear_screen(s)
    ELSE IF opcode = 238 THEN op_return(s)
    ELSE op_sys(s)

op_family_5(s, opcode) ==
    IF fourth_nibble(opcode) = 0 THEN op_skip_eq_reg(s, opcode)
    ELSE panic_unknown_opcode(s, opcode)

op_family_8(s, opcode) ==
    LET n == fourth_nibble(opcode)
    IN CASE n = 0 -> op_mov(s, opcode)
         [] n = 1 -> op_or(s, opcode)
         [] n = 2 -> op_and(s, opcode)
         [] n = 3 -> op_xor(s, opcode)
         [] n = 4 -> op_add(s, opcode)
         [] n = 5 -> op_sub(s, opcode)
         [] n = 6 -> op_shr(s, opcode)
         [] n = 7 -> op_subn(s, opcode)
         [] n = 14 -> op_shl(s, opcode)
         [] OTHER -> panic_unknown_opcode(s, opcode)

op_family_9(s, opcode) ==
    IF fourth_nibble(opcode) = 0 THEN op_skip_ne_reg(s, opcode)
    ELSE panic_unknown_opcode(s, opcode)

op_family_E(s, opcode) ==
    LET nn == lower_half(opcode)
    IN CASE nn = 158 -> op_skip_key(s, opcode)
         [] nn = 161 -> op_skip_not_key(s, opcode)
         [] OTHER -> panic_unknown_opcode(s, opcode)

op_family_F(s, opcode) ==
    LET nn == lower_half(opcode)
    IN CASE nn = 7 -> op_get_delay(s, opcode)
         [] nn = 10 -> op_wait_key(s, opcode)
         [] nn = 21 -> op_set_delay(s, opcode)
         [] nn = 24 -> op_set_sound(s, opcode)
         [] nn = 30 -> op_add_index(s, opcode)
         [] nn = 41 -> op_font(s, opcode)
         [] nn = 51 -> op_bcd(s, opcode)
         [] nn = 85 -> op_store(s, opcode)
         [] nn = 101 -> op_load(s, opcode)
         [] OTHER -> panic_unknown_opcode(s, opcode)

execute(s, opcode, rnd) ==
    LET f == first_nibble(opcode)
    IN CASE f = 0 -> op_family_0(s, opcode)
         [] f = 1 -> op_jump(s, opcode)
         [] f = 2 -> op_call(s, opcode)
         [] f = 3 -> op_skip_eq_imm(s, opcode)
         [] f = 4 -> op_skip_ne_imm(s, opcode)
         [] f = 5 -> op_family_5(s, opcode)
         [] f = 6 -> op_set_imm(s, opcode)
         [] f = 7 -> op_add_imm(s, opcode)
         [] f = 8 -> op_family_8(s, opcode)
         [] f = 9 -> op_family_9(s, opcode)
         [] f = 10 -> op_set_index(s, opcode)
         [] f = 11 -> op_jump_v0(s, opcode)
         [] f = 12 -> op_random(s, opcode, rnd)
         [] f = 13 -> op_draw(s, opcode)
         [] f = 14 -> op_family_E(s, opcode)
         [] f = 15 -> op_family_F(s, opcode)
         [] OTHER -> panic_unknown_opcode(s, opcode)

\* the fetch: memory[program_counter] and memory[program_counter + 1] are indexed
\* in this order, each bounds-checked
FetchInBounds(s) == s.program_counter + 1 < MEMORY_SIZE

fetch(s) == s.memory[s.program_counter] * 256 + s.memory[s.program_counter + 1]

cycle(s, rnd) ==
    IF ~FetchInBounds(s) THEN Panic(s, "index_out_of_bounds")
    ELSE execute(s, fetch(s), rnd)

\* ------------------------------------------------------------ state

VARIABLES
    program_counter,          \* System.program_counter
    memory,                   \* System.memory
    stack,                    \* System.stack
    stack_pointer,            \* System.stack_pointer
    v_registers,              \* System.v_registers
    index_register,           \* System.index_register
    delay_timer,              \* System.delay_timer
    sound_timer,              \* System.sound_timer
    keyboard_input,           \* System.keyboard_input
    cycles_in_current_frame,  \* System.cycles_in_current_frame
    next_frame_tick,          \* System.next_frame_tick, in ns after the last Instant::now()
    next_timer_tick,          \* System.next_timer_tick, in ns after the last Instant::now()
    framebuffer,              \* Periphery.framebuffer
    sound_playing,            \* Periphery.audio_sink is playing (not paused)
    rom,                      \* main: the bytes read from the ROM file, until loaded
    run_pc,                   \* where main / System::run stands
    panic,                    \* the panic that ended the process, NoPanic while it runs
    overflow_checks,          \* the build panics on integer overflow (TRUE) or wraps
    last_step,                \* history: what the last step was and did
    calls,                    \* history: the calls not yet returned from, newest first
    batch,                    \* history: cycles executed since the last render
    sampled,                  \* history: get_input has run at least once
    drawn,                    \* history: draw_screen has run at least once
    decoded                   \* the fields the decoder found in the first word of the ROM

vm_vars == << program_counter, memory, stack, stack_pointer, v_registers,
              index_register, delay_timer, sound_timer, framebuffer, sound_playing >>

vars == << program_counter, memory, stack, stack_pointer, v_registers, index_register,
           delay_timer, sound_timer, keyboard_input, cycles_in_current_frame,
           next_frame_tick, next_timer_tick, framebuffer, sound_playing, rom, run_pc,
           panic, overflow_checks, last_step, calls, batch, sampled, drawn, decoded >>

\* the fields System::cycle reads and writes, as one record
State ==
    [program_counter |-> program_counter, memory |-> memory, stack |-> stack,
     stack_pointer |-> stack_pointer, v_registers |-> v_registers,
     index_register |-> index_register, delay_timer |-> delay_timer,
     sound_timer |-> sound_timer, keyboard_input |-> keyboard_input,
     framebuffer |-> framebuffer, sound_playing |-> sound_playing,
     panic |-> panic, overflow_checks |-> overflow_checks]

Running == panic.kind = "none"

NO_OPCODE == 0 - 1

\* a step of main / System::run: its name, the opcode it fetched and where (cycle),
\* whether it rendered and decayed the timers, the cycles run since the last render,
\* and the name of the step it came after
StepAfter(previous, name, opcode, address, rendered, decayed) ==
    [name |-> name, opcode |-> opcode, address |-> address,
     rendered |-> rendered, decayed |-> decayed, batch |-> batch, after |-> previous]

Step(name, opcode, address, rendered, decayed) ==
    StepAfter(last_step.name, name, opcode, address, rendered, decayed)

\* ------------------------------------------------------------ inputs

\* the largest key code a poll reports, the largest random byte besides 255, and
\* the longest time (in units of SLEEP_ACCURACY) that passes unobserved
MaxPolledKey == 1
MaxRandom == 1
MaxLag == 1

\* Periphery::get_current_key_code: the key map, code = position - 1
KEY_MAP == << "X", "Key1", "Key2", "Key3", "Q", "W", "E", "A",
              "S", "D", "Z", "C", "Key4", "R", "F", "V" >>

\* `keys_option` is what Window::get_keys returned: None, or Some(keys)
get_current_key_code(keys_option) ==
    IF ~keys_option.is_some THEN NO_KEY
    ELSE IF Len(keys_option.keys) = 0 THEN NO_KEY
    ELSE IF \E c \in 1..Len(KEY_MAP) : KEY_MAP[c] = keys_option.keys[1]
         THEN (CHOOSE c \in 1..Len(KEY_MAP) : KEY_MAP[c] = keys_option.keys[1]) - 1
         ELSE NO_KEY

Some(keys) == [is_some |-> TRUE, keys |-> keys]

PolledKeys ==
    { [is_some |-> FALSE, keys |-> << >>], Some(<< >>), Some(<< "Escape" >>) }
        \cup { Some(<< KEY_MAP[c] >>) :
                   c \in 1..(IF MaxPolledKey < 15 THEN MaxPolledKey + 1 ELSE 16) }

RandomBytes == { r \in 0..255 : r <= MaxRandom \/ r = 255 }

\* time that passes between two readings of the clock
Delays == { k * SLEEP_ACCURACY : k \in 0..MaxLag }

\* ------------------------------------------------------------ System::default, main

InitMemory ==
    [a \in 0..(MEMORY_SIZE - 1) |->
        IF a >= FONTSET_OFFSET /\ a < FONTSET_OFFSET + Len(fontset)
        THEN fontset[a - FONTSET_OFFSET + 1] ELSE 0]

\* bin.rs: the six field extractors applied to one word
Fields(word) ==
    [word |-> word,
     first_nibble |-> first_nibble(word), second_nibble |-> second_nibble(word),
     third_nibble |-> third_nibble(word), fourth_nibble |-> fourth_nibble(word),
     lower_half |-> lower_half(word), lower_three |-> lower_three(word)]

NotDecoded ==
    [word |-> NO_OPCODE, first_nibble |-> 0, second_nibble |-> 0, third_nibble |-> 0,
     fourth_nibble |-> 0, lower_half |-> 0, lower_three |-> 0]

\* the state after System::default(), with `file` read from the ROM file
InitWith(file, checks) ==
    /\ program_counter = 512
    /\ memory = InitMemory
    /\ stack = [i \in 0..(STACK_SIZE - 1) |-> 0]
    /\ stack_pointer = 0
    /\ v_registers = [i \in 0..(NUM_REGISTERS - 1) |-> 0]
    /\ index_register = 0
    /\ delay_timer = 0
    /\ sound_timer = 0
    /\ keyboard_input = 0
    /\ next_timer_tick = 0
    /\ next_frame_tick = 0
    /\ cycles_in_current_frame = 0
    /\ framebuffer = [p \in 0..(SCREEN_SIZE - 1) |-> 0]
    /\ sound_playing = FALSE
    /\ rom = file
    /\ run_pc = "load"
    /\ panic = NoPanic
    /\ overflow_checks = checks
    /\ calls = << >>
    /\ batch = 0
    /\ sampled = FALSE
    /\ drawn = FALSE
    /\ decoded = NotDecoded
    /\ last_step = StepAfter("default", "default", NO_OPCODE, 512, FALSE, FALSE)

\* System::copy_buffer_to_memory, the loop `for data in buffer`: byte n of the
\* buffer (counted from 1) goes to memory[offset + n - 1], the rest is kept
copy_bytes(mem, buffer, offset) ==
    [address \in offset..(offset + Len(buffer) - 1) |-> buffer[address - offset + 1]] @@ mem

\* the load that refuses a buffer ending exactly at the end of memory
copy_buffer_to_memory_strict(mem, buffer, offset) ==
    IF Len(buffer) + offset < MEMORY_SIZE
    THEN << copy_bytes(mem, buffer, offset), TRUE >>
    ELSE << mem, FALSE >>

\* System::copy_buffer_to_memory: <<memory, fits>>
copy_buffer_to_memory(mem, buffer, offset) ==
    IF Len(buffer) + offset <= MEMORY_SIZE
    THEN << copy_bytes(mem, buffer, offset), TRUE >>
    ELSE << mem, FALSE >>

\* main: system.copy_buffer_to_memory(buffer, 0x200); system.run()
load_rom ==
    /\ run_pc = "load"
    /\ Running
    /\ LET copied == copy_buffer_to_memory(memory, rom, ROM_OFFSET)
       IN /\ memory' = copied[1]
          /\ panic' = IF copied[2] THEN panic
                      ELSE [kind |-> "rom_too_large", opcode |-> 0, address |-> 0]
          /\ run_pc' = IF copied[2] THEN "loop" ELSE run_pc
    /\ rom' = << >>
    /\ last_step' = Step("load_rom", NO_OPCODE, program_counter, FALSE, FALSE)
    /\ UNCHANGED << program_counter, stack, stack_pointer, v_registers, index_register,
                    delay_timer, sound_timer, keyboard_input, cycles_in_current_frame,
                    next_frame_tick, next_timer_tick, framebuffer, sound_playing,
                    overflow_checks, calls, batch, sampled, drawn, decoded >>

\* ------------------------------------------------------------ System::run

\* the else branch with the sleep before the timers
else_branch_sleep_before_timers == << "get_input", "tick_frame", "sleep", "tick_timers" >>

\* the else branch with the timers ticked before the frame
else_branch_timers_first == << "get_input", "tick_timers", "tick_frame", "sleep" >>

\* run, the else branch: get_input(); tick_frame(); tick_timers(); sleep_if_needed()
else_branch == << "get_input", "tick_frame", "tick_timers", "sleep" >>

\* where run stands after the call `done` of the else branch: at the next call,
\* or back at the head of the loop after the last
after_call(done) ==
    LET n == CHOOSE i \in 1..Len(else_branch) : else_branch[i] = done
    IN IF n < Len(else_branch) THEN else_branch[n + 1] ELSE "loop"

\* the budget check off by one
budget_left_inclusive(cycles) == cycles <= CYCLES_PER_FRAME

\* run: `if self.cycles_in_current_frame < CYCLES_PER_FRAME`
budget_left(cycles) == cycles < CYCLES_PER_FRAME

\* history of calls: a call that did not panic is recorded with its return address
\* (the address after the call) and the stack pointer it found; a return drops
\* the newest record
calls_after(s, opcode, after) ==
    IF after.panic.kind # "none" THEN calls
    ELSE IF first_nibble(opcode) = 2
         THEN << [ret |-> s.program_counter + 2, sp |-> s.stack_pointer] >> \o calls
    ELSE IF opcode = 238 /\ Len(calls) > 0 THEN Tail(calls)
    ELSE calls

\* rand::thread_rng().gen::<u8>() is drawn by CxNN alone
RandomDraws(s) ==
    IF FetchInBounds(s) /\ first_nibble(fetch(s)) = 12 THEN RandomBytes ELSE { 0 }

\* run: self.cycle(); self.cycles_in_current_frame += 1;
run_cycle ==
    /\ run_pc = "loop"
    /\ Running
    /\ budget_left(cycles_in_current_frame)
    /\ \E rnd \in RandomDraws(State) :
         LET s == State
             after == cycle(s, rnd)
             opcode == IF FetchInBounds(s) THEN fetch(s) ELSE NO_OPCODE
             ran == after.panic.kind = "none"
         IN /\ program_counter' = after.program_counter
            /\ memory' = after.memory
            /\ stack' = after.stack
            /\ stack_pointer' = after.stack_pointer
            /\ v_registers' = after.v_registers
            /\ index_register' = after.index_register
            /\ delay_timer' = after.delay_timer
            /\ sound_timer' = after.sound_timer
            /\ framebuffer' = after.framebuffer
            /\ sound_playing' = after.sound_playing
            /\ panic' = after.panic
            /\ cycles_in_current_frame' =
                   IF ran THEN cycles_in_current_frame + 1 ELSE cycles_in_current_frame
            /\ batch' = IF ran THEN batch + 1 ELSE batch
            /\ calls' = calls_after(s, opcode, after)
            /\ last_step' = Step("cycle", opcode, program_counter, FALSE, FALSE)
    /\ UNCHANGED << keyboard_input, next_frame_tick, next_timer_tick, rom, run_pc,
                    overflow_checks, sampled, drawn, decoded >>

\* System::get_input
get_input ==
    /\ run_pc = "loop"
    /\ Running
    /\ ~budget_left(cycles_in_current_frame)
    /\ \E keys \in PolledKeys : keyboard_input' = get_current_key_code(keys)
    /\ run_pc' = after_call("get_input")
    /\ sampled' = TRUE
    /\ last_step' = Step("get_input", NO_OPCODE, program_counter, FALSE, FALSE)
    /\ UNCHANGED << vm_vars, cycles_in_current_frame, next_frame_tick, next_timer_tick,
                    rom, panic, overflow_checks, calls, batch, drawn, decoded >>

\* System::tick_frame; Periphery::draw_screen
tick_frame ==
    /\ run_pc = "tick_frame"
    /\ Running
    /\ \E d \in Delays :
         LET due == next_frame_tick - d <= 0
         IN /\ cycles_in_current_frame' = IF due THEN 0 ELSE cycles_in_current_frame
            /\ next_frame_tick' = IF due THEN FRAME_INTERVAL ELSE next_frame_tick - d
            /\ next_timer_tick' = next_timer_tick - d
            /\ batch' = IF due THEN 0 ELSE batch
            /\ drawn' = (drawn \/ due)
            /\ last_step' = Step("tick_frame", NO_OPCODE, program_counter, due, FALSE)
    /\ run_pc' = after_call("tick_frame")
    /\ UNCHANGED << vm_vars, keyboard_input, rom, panic, overflow_checks, calls,
                    sampled, decoded >>

\* the decrement without the test for zero, wrapping as u8
decay_wrapping(timer) == (timer - 1) % U8_MODULUS

\* tick_timers: `if self.delay_timer != 0 { self.delay_timer -= 1; }`, and the same
\* for the sound timer
decay(timer) == IF timer # 0 THEN timer - 1 ELSE timer

\* System::tick_timers; Periphery::stop_sound
tick_timers ==
    /\ run_pc = "tick_timers"
    /\ Running
    /\ \E d \in Delays :
         LET due == next_timer_tick - d <= 0
         IN /\ delay_timer' = IF due THEN decay(delay_timer) ELSE delay_timer
            /\ sound_timer' = IF due THEN decay(sound_timer) ELSE sound_timer
            /\ sound_playing' = IF due /\ sound_timer = 0 THEN FALSE ELSE sound_playing
            /\ next_timer_tick' = IF due THEN TIMER_INTERVAL ELSE next_timer_tick - d
            /\ next_frame_tick' = next_frame_tick - d
            /\ last_step' = Step("tick_timers", NO_OPCODE, program_counter, FALSE, due)
    /\ run_pc' = after_call("tick_timers")
    /\ UNCHANGED << program_counter, memory, stack, stack_pointer, v_registers,
                    index_register, framebuffer, keyboard_input, cycles_in_current_frame,
                    rom, panic, overflow_checks, calls, batch, sampled, drawn, decoded >>

\* System::sleep_if_needed: thread::sleep returns no sooner than asked
sleep_if_needed ==
    /\ run_pc = "sleep"
    /\ Running
    /\ \E d \in Delays, late \in Delays :
         LET until == next_frame_tick - d
             slept == IF 0 < until /\ until > SLEEP_ACCURACY
                      THEN (until - SLEEP_ACCURACY) + late ELSE 0
         IN /\ next_frame_tick' = until - slept
            /\ next_timer_tick' = next_timer_tick - d - slept
    /\ run_pc' = after_call("sleep")
    /\ last_step' = Step("sleep_if_needed", NO_OPCODE, program_counter, FALSE, FALSE)
    /\ UNCHANGED << vm_vars, keyboard_input, cycles_in_current_frame, rom, panic,
                    overflow_checks, calls, batch, sampled, drawn, decoded >>

Next ==
    \/ load_rom
    \/ run_cycle
    \/ get_input
    \/ tick_frame
    \/ tick_timers
    \/ sleep_if_needed

\* ------------------------------------------------------------ ROM images

Op(a, b, c, d) == a * 4096 + b * 256 + c * 16 + d

\* xNN, NNN operands
OpNN(a, x, nn) == a * 4096 + x * 256 + nn

OpNNN(a, nnn) == a * 4096 + nnn

\* a ROM file: big-endian 16-bit words, as bytes
RomBytes(words) ==
    [i \in 1..(2 * Len(words)) |->
        IF i % 2 = 1 THEN words[(i + 1) \div 2] \div 256 ELSE words[i \div 2] % 256]

\* FxFF is no instruction: a program that ends with it stops there
HALT == Op(15, 15, 15, 15)

\* `1200`: a program that jumps to itself for ever
IdleRom == << OpNNN(1, ROM_OFFSET) >>

U8_MAX == 255

TestRegisters == { 0, 1, 15 }

TestBytes == { 0, 1, 3, 5, 128, 255 }

\* Fx33 on every byte value, at an address inside memory
BcdRoms ==
    { << OpNN(6, x, v), OpNNN(10, i), Op(15, x, 3, 3), HALT >> :
        x \in { 0, 15 }, v \in 0..U8_MAX, i \in { 768, MEMORY_SIZE - 3 } }
        \cup { IdleRom }

InitBcd == \E words \in BcdRoms, checks \in BOOLEAN : InitWith(RomBytes(words), checks)

SpecBcd == InitBcd /\ [][Next]_vars

\* 8xy4, 8xy5, 8xy7 on sample registers and bytes
ArithRoms ==
    { << OpNN(6, x, a), OpNN(6, y, b), Op(8, x, y, n), HALT >> :
        x \in TestRegisters, y \in TestRegisters, a \in TestBytes, b \in TestBytes,
        n \in { 4, 5, 7 } }
        \cup { IdleRom }

InitArith == \E words \in ArithRoms, checks \in BOOLEAN : InitWith(RomBytes(words), checks)

SpecArith == InitArith /\ [][Next]_vars

\* 8xy6, 8xyE on sample registers and bytes
ShiftRoms ==
    { << OpNN(6, x, a), OpNN(6, y, b), Op(8, x, y, n), HALT >> :
        x \in TestRegisters, y \in TestRegisters, a \in TestBytes, b \in TestBytes,
        n \in { 6, 14 } }
        \cup { IdleRom }

InitShift == \E words \in ShiftRoms, checks \in BOOLEAN : InitWith(RomBytes(words), checks)

SpecShift == InitShift /\ [][Next]_vars

\* n times the word w
Repeat(w, n) == [i \in 1..n |-> w]

\* Fx0A as the first or second instruction, and Fx0A after CYCLES_PER_FRAME other
\* instructions, so that input has been sampled before it runs
KeyWaitRoms ==
    { << Op(15, x, 0, 10), HALT >> : x \in TestRegisters }
        \cup { << OpNN(6, x, 42), Op(15, x, 0, 10), HALT >> : x \in TestRegisters }
        \cup { << OpNN(6, x, 42) >> \o Repeat(OpNN(7, 2, 1), CYCLES_PER_FRAME - 1)
                   \o << Op(15, x, 0, 10), HALT >> : x \in TestRegisters }
        \cup { IdleRom }

InitKeyWait ==
    \E words \in KeyWaitRoms, checks \in BOOLEAN : InitWith(RomBytes(words), checks)

SpecKeyWait == InitKeyWait /\ [][Next]_vars

\* a subroutine at 0x204 that calls itself until V0 = depth and then returns
NestedCalls(depth) ==
    << OpNNN(2, ROM_OFFSET + 4), HALT,
       OpNN(7, 0, 1), OpNN(3, 0, depth), OpNNN(2, ROM_OFFSET + 4), Op(0, 0, 14, 14) >>

NestDepths == { 1, 2, 3, STACK_SIZE - 1, STACK_SIZE }

\* returns with no call outstanding, at once and after a call has returned
StackRoms ==
    { NestedCalls(depth) : depth \in NestDepths }
        \cup { << Op(0, 0, 14, 14) >>,
                << OpNNN(2, ROM_OFFSET + 4), Op(0, 0, 14, 14), Op(0, 0, 14, 14) >>,
                IdleRom }

InitStack == \E words \in StackRoms, checks \in BOOLEAN : InitWith(RomBytes(words), checks)

SpecStack == InitStack /\ [][Next]_vars

\* instructions that address memory through I
MemoryOps ==
    { Op(15, 15, 5, 5), Op(15, 2, 5, 5), Op(15, 15, 6, 5), Op(15, 2, 6, 5),
      Op(15, 0, 3, 3), Op(13, 0, 0, 15), Op(13, 0, 0, 1), Op(13, 0, 0, 0) }

\* the number of Fx1E with Vx = 255 that take I from 0xFF0 to 65535
INDEX_RAISES == (U16_MODULUS - 1 - (MEMORY_SIZE - 16)) \div U8_MAX

\* fetches and I-relative accesses at, across and beyond the end of memory
MemoryRoms ==
    { << OpNNN(1, MEMORY_SIZE - 1) >>,
      << OpNNN(1, MEMORY_SIZE - 4) >>,
      << OpNN(6, 0, 255), OpNNN(11, MEMORY_SIZE - 1) >>,
      IdleRom }
        \cup { << OpNNN(10, i), op, HALT >> :
                   i \in { MEMORY_SIZE - 16, MEMORY_SIZE - 3, MEMORY_SIZE - 2,
                           MEMORY_SIZE - 1 },
                   op \in MemoryOps }
        \cup { << OpNNN(10, MEMORY_SIZE - 1), OpNN(6, 0, 255), Op(15, 0, 1, 14), op, HALT >> :
                   op \in MemoryOps }
        \cup { << OpNNN(10, MEMORY_SIZE - 16), OpNN(6, 0, 255) >>
                   \o Repeat(Op(15, 0, 1, 14), INDEX_RAISES) \o << op, HALT >> :
                   op \in { Op(15, 1, 5, 5), Op(13, 0, 0, 2) } }

InitMemoryAccess ==
    \E words \in MemoryRoms, checks \in BOOLEAN : InitWith(RomBytes(words), checks)

SpecMemory == InitMemoryAccess /\ [][Next]_vars

\* the words the opcode matcher has no instruction for
UnknownOpcodes ==
    { Op(f, x, y, n) : f \in { 5, 9 }, x \in { 0, 15 }, y \in { 0, 15 }, n \in 1..15 }
        \cup { Op(8, x, y, n) : x \in { 0, 15 }, y \in { 0, 15 }, n \in (8..13) \cup { 15 } }
        \cup { OpNN(14, 3, nn) : nn \in (0..U8_MAX) \ { 158, 161 } }
        \cup { OpNN(15, 3, nn) : nn \in (0..U8_MAX) \ { 7, 10, 21, 24, 30, 41, 51, 85, 101 } }

\* V0 = 5, the glyph "0" drawn at (5, 5), both timers set to 5, then the word
UnknownOpcodeRoms ==
    { << OpNN(6, 0, 5), OpNNN(10, FONTSET_OFFSET), Op(13, 0, 0, 5), Op(15, 0, 1, 5),
         Op(15, 0, 1, 8), op >> : op \in UnknownOpcodes }
        \cup { IdleRom }

InitUnknownOpcode ==
    \E words \in UnknownOpcodeRoms, checks \in BOOLEAN : InitWith(RomBytes(words), checks)

SpecUnknownOpcode == InitUnknownOpcode /\ [][Next]_vars

\* programs that run for ever: a counter, timers that are set and read, a key-wait
PacerRoms ==
    { IdleRom,
      << OpNN(7, 0, 1), OpNNN(1, ROM_OFFSET) >>,
      << OpNN(6, 0, 3), Op(15, 0, 1, 5), Op(15, 0, 1, 8), Op(15, 1, 0, 7),
         OpNNN(1, ROM_OFFSET + 6) >>,
      << OpNN(6, 0, 2), Op(15, 0, 1, 5), Op(15, 1, 0, 10), Op(15, 0, 1, 8),
         OpNNN(1, ROM_OFFSET + 4) >> }

InitPacer == \E words \in PacerRoms, checks \in BOOLEAN : InitWith(RomBytes(words), checks)

SpecPacer == InitPacer /\ [][Next]_vars

\* sprites drawn at and across the edges of the screen, with the coordinates in
\* V0, V1 or VF, from the font table or from the bytes FF FF of the last word of
\* the program, and drawn again at the same place or 4 pixels to the left
SpritePositions == { << 0, 0 >>, << 61, 30 >>, << U8_MAX, U8_MAX >> }

SpriteHeights == { 0, 1, 5, 15 }

SpriteRegisters == { << 0, 1 >>, << 15, 1 >>, << 0, 15 >> }

DrawRoms ==
    { << OpNN(6, xy[1], at[1]), OpNN(6, xy[2], at[2]), OpNNN(10, i),
         Op(13, xy[1], xy[2], n), OpNN(7, xy[1], dx), Op(13, xy[1], xy[2], n), HALT >> :
           xy \in SpriteRegisters, at \in SpritePositions,
           n \in SpriteHeights, i \in { FONTSET_OFFSET, ROM_OFFSET + 12 },
           dx \in { 0, U8_MODULUS - 4 } }
        \cup { IdleRom }

InitDraw == \E words \in DrawRoms, checks \in BOOLEAN : InitWith(RomBytes(words), checks)

SpecDraw == InitDraw /\ [][Next]_vars

\* V0, V1 and VF set, V0..Vx stored at I, the three registers altered, V0..Vx
\* loaded from I; and a load of V0..Vx from the font table
BlockValues == { << 1, 2, 3 >>, << U8_MAX, 0, 128 >> }

BlockRoms ==
    { << OpNN(6, 0, v[1]), OpNN(6, 1, v[2]), OpNN(6, 15, v[3]), OpNNN(10, i),
         Op(15, x, 5, 5), OpNN(6, 0, 7), OpNN(6, 1, 7), OpNN(6, 15, 7),
         Op(15, x, 6, 5), HALT >> :
           v \in BlockValues, x \in TestRegisters,
           i \in { 3 * U8_MODULUS, MEMORY_SIZE - 16, MEMORY_SIZE - 2 } }
        \cup { << OpNNN(10, FONTSET_OFFSET), Op(15, x, 6, 5), Op(15, x, 5, 5), HALT >> :
                   x \in TestRegisters }
        \cup { IdleRom }

InitBlock == \E words \in BlockRoms, checks \in BOOLEAN : InitWith(RomBytes(words), checks)

SpecBlock == InitBlock /\ [][Next]_vars

\* one instruction of every kind, run with V0 and V1 equal or different, followed
\* by the two words it can continue at
OneOfEach ==
    { OpNN(3, 0, 0), OpNN(4, 0, 0), Op(5, 0, 1, 0), Op(9, 0, 1, 0),
      OpNN(14, 0, 158), OpNN(14, 0, 161),
      OpNNN(1, ROM_OFFSET + 8), OpNNN(2, ROM_OFFSET + 8), OpNNN(11, ROM_OFFSET + 6),
      Op(0, 0, 14, 0), OpNNN(0, 291), OpNN(6, 3, 1), OpNN(7, 3, 1),
      Op(8, 0, 1, 0), Op(8, 0, 1, 1), Op(8, 0, 1, 2), Op(8, 0, 1, 3), Op(8, 0, 1, 4),
      Op(8, 0, 1, 5), Op(8, 0, 1, 6), Op(8, 0, 1, 7), Op(8, 0, 1, 14),
      OpNNN(10, ROM_OFFSET), OpNN(12, 0, 1), Op(13, 0, 1, 1),
      OpNN(15, 0, 7), OpNN(15, 0, 10), OpNN(15, 0, 21), OpNN(15, 0, 24), OpNN(15, 0, 30),
      OpNN(15, 0, 41), OpNN(15, 0, 51), OpNN(15, 0, 85), OpNN(15, 0, 101) }

ProgramCounterRoms ==
    { << OpNN(6, 0, a), OpNN(6, 1, b), op, HALT, HALT >> :
           a \in { 0, 2 }, b \in { 0, 2 }, op \in OneOfEach }
        \cup { << OpNNN(2, ROM_OFFSET + 4), HALT, Op(0, 0, 14, 14) >>, IdleRom }

InitProgramCounter ==
    \E words \in ProgramCounterRoms, checks \in BOOLEAN :
        InitWith(RomBytes(words), checks)

SpecProgramCounter == InitProgramCounter /\ [][Next]_vars

\* ROM files of n bytes: the idle program 12 00, cut or padded with FF to n bytes
RomOfLength(n) == [i \in 1..n |-> IF i = 1 THEN 18 ELSE IF i = 2 THEN 0 ELSE U8_MAX]

\* the lengths at and around the largest that fits, MEMORY_SIZE - ROM_OFFSET
RomLengths ==
    { 1, 2, 3, MEMORY_SIZE - ROM_OFFSET - 1, MEMORY_SIZE - ROM_OFFSET,
      MEMORY_SIZE - ROM_OFFSET + 1, MEMORY_SIZE - ROM_OFFSET + 2, MEMORY_SIZE }

InitLoad == \E n \in RomLengths, checks \in BOOLEAN : InitWith(RomOfLength(n), checks)

SpecLoad == InitLoad /\ [][Next]_vars

\* Fx0A after a full batch of other instructions, followed by a jump to itself or
\* back to the Fx0A
KeyWaitThen(x, back) ==
    << OpNN(6, x, 42) >> \o Repeat(OpNN(7, 2, 1), CYCLES_PER_FRAME - 1)
        \o << Op(15, x, 0, 10), OpNNN(1, ROM_OFFSET + 2 * (CYCLES_PER_FRAME + 1 - back)) >>

KeyWaitLiveRoms ==
    { KeyWaitThen(1, 0), KeyWaitThen(15, 1), IdleRom }

\* nothing in these programs overflows, so one build profile is enough
InitKeyWaitLive == \E words \in KeyWaitLiveRoms : InitWith(RomBytes(words), FALSE)

\* a deadline that is due on the monotonic clock is found elapsed by one of the
\* readings Instant::now() of tick_frame and of tick_timers: the loop of run keeps
\* going, and every pass takes time
TimeAdvances ==
    /\ WF_vars(Next)
    /\ SF_vars(tick_frame /\ last_step'.rendered)
    /\ SF_vars(tick_timers /\ last_step'.decayed)

SpecKeyWaitLive == InitKeyWaitLive /\ [][Next]_vars /\ TimeAdvances

\* values of Vx for the key skips: key codes, a value that is no key code, and
\* the value the key latch holds while no key is pressed
SkipValues == { 0, 1, 16, NO_KEY }

\* Ex9E or ExA1 on V1 = value, as the second instruction (before input has been
\* sampled) and after a full batch (after it has)
KeySkipRoms ==
    { << OpNN(6, 1, value), OpNN(14, 1, nn), HALT, HALT >> :
           value \in SkipValues, nn \in { 158, 161 } }
        \cup { << OpNN(6, 1, value) >> \o Repeat(OpNN(7, 2, 1), CYCLES_PER_FRAME - 1)
                    \o << OpNN(14, 1, nn), HALT, HALT >> :
                       value \in SkipValues, nn \in { 158, 161 } }
        \cup { IdleRom }

InitKeySkip ==
    \E words \in KeySkipRoms, checks \in BOOLEAN : InitWith(RomBytes(words), checks)

SpecKeySkip == InitKeySkip /\ [][Next]_vars

\* operands NNN of 0NNN next to 0E0 and 0EE, and at both ends
SysOperands == { 0, 1, 14, 223, 225, 237, 239, 291, 480, 494, 3808, 4095 }

\* V0 = 5, the glyph "0" drawn at (5, 5), both timers set to 5 and a call made,
\* then the word
AfterSetup(op) ==
    << OpNNN(2, ROM_OFFSET + 4), HALT, OpNN(6, 0, 5), OpNNN(10, FONTSET_OFFSET),
       Op(13, 0, 0, 5), Op(15, 0, 1, 5), Op(15, 0, 1, 8), op, HALT >>

\* 0NNN, 00E0 and 00EE after the setup, and jumps into the zero-filled memory
\* near its end, to an even and to an odd address
ZeroRoms ==
    { AfterSetup(OpNNN(0, nnn)) : nnn \in SysOperands \cup { 224, 238 } }
        \cup { << OpNNN(1, MEMORY_SIZE - 8) >>, << OpNNN(1, MEMORY_SIZE - 7) >>, IdleRom }

InitZero == \E words \in ZeroRoms, checks \in BOOLEAN : InitWith(RomBytes(words), checks)

SpecZero == InitZero /\ [][Next]_vars

\* the decoder on its own: the first word of the ROM file is taken apart before
\* the file is loaded
decode_word ==
    /\ run_pc = "load"
    /\ Len(rom) >= 2
    /\ decoded = NotDecoded
    /\ decoded' = Fields(rom[1] * U8_MODULUS + rom[2])
    /\ UNCHANGED << vm_vars, keyboard_input, cycles_in_current_frame, next_frame_tick,
                    next_timer_tick, rom, run_pc, panic, overflow_checks, last_step,
                    calls, batch, sampled, drawn >>

\* words built from every choice of four of these nibbles
TestNibbles == { 0, 1, 7, 8, 10, 11, 12, 13, 15 }

InitDecoder ==
    \E a \in TestNibbles, b \in TestNibbles, c \in TestNibbles, d \in TestNibbles :
        InitWith(RomBytes(<< Op(a, b, c, d) >>), FALSE)

SpecDecoder == InitDecoder /\ [][decode_word]_vars

\* ------------------------------------------------------------ claims

\* the step just taken is a cycle; the opcode it fetched and the fields of it
IsCycle == last_step'.name = "cycle"

Fetched == last_step'.opcode

FetchedIs(family, nn) == first_nibble(Fetched) = family /\ lower_half(Fetched) = nn

X == second_nibble(Fetched)

Y == third_nibble(Fetched)

\* C1: decimal store (Fx33) of the value v of Vx with I + 2 <= 4095 leaves
\* memory[I] = v div 100, memory[I+1] = (v div 10) mod 10, memory[I+2] = v mod 10,
\* and changes no other memory cell and no register.
C1_DecimalStore ==
    [][(IsCycle /\ FetchedIs(15, 51) /\ index_register + 2 <= MEMORY_SIZE - 1)
        => /\ memory' = [memory EXCEPT ![index_register] = v_registers[X] \div 100,
                                       ![index_register + 1] = (v_registers[X] \div 10) % 10,
                                       ![index_register + 2] = v_registers[X] % 10]
           /\ v_registers' = v_registers
           /\ index_register' = index_register]_vars

\* C2: after add (8xy4) VF is 1 iff old Vx + old Vy > 255, after subtract (8xy5)
\* VF is 1 iff old Vx >= old Vy, after reverse subtract (8xy7) VF is 1 iff
\* old Vy >= old Vx, and 0 otherwise, for every x and y in 0..15.
C2_FlagPolarity ==
    [][(IsCycle /\ first_nibble(Fetched) = 8)
        => /\ fourth_nibble(Fetched) = 4
                => v_registers'[15] = IF v_registers[X] + v_registers[Y] > 255 THEN 1 ELSE 0
           /\ fourth_nibble(Fetched) = 5
                => v_registers'[15] = IF v_registers[X] >= v_registers[Y] THEN 1 ELSE 0
           /\ fourth_nibble(Fetched) = 7
                => v_registers'[15] = IF v_registers[Y] >= v_registers[X] THEN 1 ELSE 0]_vars

\* C3: after shift-right (8xy6) VF is the least-significant bit of the old Vx, after
\* shift-left (8xyE) VF is the most-significant bit of the old Vx, for every x in
\* 0..15; for x # 15 Vx becomes old Vx div 2 (right) or (old Vx * 2) mod 256 (left);
\* a Vy that is neither Vx nor VF is unchanged.
C3_Shifts ==
    [][(IsCycle /\ first_nibble(Fetched) = 8 /\ fourth_nibble(Fetched) \in { 6, 14 })
        => /\ fourth_nibble(Fetched) = 6 => v_registers'[15] = v_registers[X] % 2
           /\ fourth_nibble(Fetched) = 14 => v_registers'[15] = v_registers[X] \div 128
           /\ (X # 15 /\ fourth_nibble(Fetched) = 6)
                => v_registers'[X] = v_registers[X] \div 2
           /\ (X # 15 /\ fourth_nibble(Fetched) = 14)
                => v_registers'[X] = (v_registers[X] * 2) % 256
           /\ (Y # X /\ Y # 15) => v_registers'[Y] = v_registers[Y]]_vars

\* C4: a cycle that executes key-wait (Fx0A) while no key is reported (the latest
\* sample was "none", or no sample has been taken yet) changes neither the program
\* counter nor V, I, memory, stack or framebuffer; Vx is written and the program
\* counter advanced by 2 only when the latest sample reported a key k in 0..15,
\* and then Vx = k.
C4_KeyWaitSpins ==
    [][(IsCycle /\ FetchedIs(15, 10))
        => /\ (keyboard_input = NO_KEY \/ ~sampled)
                => UNCHANGED << program_counter, v_registers, index_register, memory,
                                stack, stack_pointer, framebuffer >>
           /\ (sampled /\ keyboard_input \in 0..15)
                => /\ v_registers' = [v_registers EXCEPT ![X] = keyboard_input]
                   /\ program_counter' = program_counter + 2]_vars

\* C5: a return (00EE) executed with the call stack empty (stack pointer 0) halts
\* the machine: no cycle runs after it.
C5_UnderflowHalts ==
    [][(IsCycle /\ Fetched = 238 /\ stack_pointer = 0) => panic'.kind # "none"]_vars

\* C6: while the machine runs, 0 <= stack pointer <= 24 and the stack pointer is the
\* number of calls not yet returned from; slot 0 of the stack is never written;
\* a call that ran leaves the stack pointer in 1..24.
C6_StackCapacity ==
    /\ stack[0] = 0
    /\ Running =>
          /\ stack_pointer \in 0..(STACK_SIZE - 1)
          /\ stack_pointer = Len(calls)
          /\ (last_step.name = "cycle" /\ first_nibble(last_step.opcode) = 2)
                => stack_pointer \in 1..(STACK_SIZE - 1)

\* C7: a call (2NNN) fetched at P sets the program counter to NNN; the return
\* (00EE) that matches it sets the program counter to P + 2 and the stack pointer
\* to its value before the call; returns match calls newest first.
C7_CallReturnLifo ==
    [][IsCycle
        => /\ (first_nibble(Fetched) = 2 /\ panic'.kind = "none")
                => /\ program_counter' = lower_three(Fetched)
                   /\ Head(calls') = [ret |-> program_counter + 2, sp |-> stack_pointer]
                   /\ Tail(calls') = calls
           /\ (Fetched = 238 /\ Len(calls) > 0)
                => /\ panic'.kind = "none"
                   /\ program_counter' = Head(calls).ret
                   /\ stack_pointer' = Head(calls).sp
                   /\ calls' = Tail(calls)]_vars

\* C7 witness: a return has resumed after an inner call while an outer call is
\* still outstanding
C7_Witness ==
    /\ Running
    /\ last_step.name = "cycle"
    /\ last_step.opcode = 238
    /\ Len(calls) >= 2
    /\ program_counter = ROM_OFFSET + 10

\* the addresses a cycle needs: the two bytes of the opcode and, for DxyN, Fx33,
\* Fx55 and Fx65, the cells I + k, as integers (no wrap)
FetchAddresses == { program_counter, program_counter + 1 }

OperandAddresses(opcode) ==
    IF first_nibble(opcode) = 13
    THEN { index_register + k : k \in 0..(fourth_nibble(opcode) - 1) }
    ELSE IF first_nibble(opcode) = 15 /\ lower_half(opcode) = 51
    THEN { index_register + k : k \in 0..2 }
    ELSE IF first_nibble(opcode) = 15 /\ lower_half(opcode) \in { 85, 101 }
    THEN { index_register + k : k \in 0..second_nibble(opcode) }
    ELSE { }

\* C8: a cycle whose fetch address or whose effective address I + k lies outside
\* 0..4095 halts the machine, and writes no memory cell other than the cells
\* I + k that lie inside memory (no address wraps to a low cell).
C8_OutOfBoundsHalts ==
    [][(IsCycle /\ \E a \in FetchAddresses \cup OperandAddresses(Fetched) :
                       a > MEMORY_SIZE - 1)
        => /\ panic'.kind # "none"
           /\ \A a \in 0..(MEMORY_SIZE - 1) :
                 a \notin OperandAddresses(Fetched) => memory'[a] = memory[a]]_vars

\* C8 witness: Fx55 halted with I = 65535, where I + 1 exceeds 65535
C8_Witness ==
    /\ panic.kind = "index_out_of_bounds"
    /\ last_step.name = "cycle"
    /\ last_step.opcode = Op(15, 1, 5, 5)
    /\ index_register = U16_MODULUS - 1

UnknownOpcode(opcode) ==
    \/ first_nibble(opcode) \in { 5, 9 } /\ fourth_nibble(opcode) # 0
    \/ first_nibble(opcode) = 8 /\ fourth_nibble(opcode) \in { 8, 9, 10, 11, 12, 13, 15 }
    \/ first_nibble(opcode) = 14 /\ lower_half(opcode) \notin { 158, 161 }
    \/ first_nibble(opcode) = 15
          /\ lower_half(opcode) \notin { 7, 10, 21, 24, 30, 41, 51, 85, 101 }

\* C9: a cycle that fetches an undefined opcode halts the machine, reporting the
\* opcode and the program counter, and leaves program counter, registers, I,
\* memory, stack, timers and framebuffer as they were; once halted, no step
\* (cycle, timer decay, render) is taken.
C9_UnknownOpcodeHalts ==
    [][/\ Running
       /\ (IsCycle /\ UnknownOpcode(Fetched))
             => /\ panic' = [kind |-> "unknown_opcode", opcode |-> Fetched,
                             address |-> program_counter]
                /\ UNCHANGED << program_counter, v_registers, index_register, memory,
                                stack, stack_pointer, delay_timer, sound_timer,
                                framebuffer >>]_vars

\* C9 witness: 8xyF halted the machine after the program had drawn and set timers
C9_Witness ==
    /\ panic.kind = "unknown_opcode"
    /\ panic.opcode = Op(8, 0, 15, 15)
    /\ panic.address = ROM_OFFSET + 10
    /\ delay_timer = 5
    /\ framebuffer[5 * SCREEN_WIDTH + 5] = 1

\* C10: CYCLES_PER_FRAME is 16; every render comes after exactly 16 cycles since
\* the previous render (or since start); while 0 < cycles_in_current_frame < 16
\* the only step taken is a cycle (no render, no timer decay, no input sample), so
\* the keyboard state does not change there and the timers change only by Fx15 / Fx18.
C10_FrameBatches ==
    /\ CYCLES_PER_FRAME = 16
    /\ [][/\ last_step'.rendered => batch = 16
          /\ (0 < cycles_in_current_frame /\ cycles_in_current_frame < 16)
                => /\ IsCycle
                   /\ ~last_step'.rendered
                   /\ ~last_step'.decayed
                   /\ keyboard_input' = keyboard_input
                   /\ delay_timer' # delay_timer => FetchedIs(15, 21)
                   /\ sound_timer' # sound_timer => FetchedIs(15, 24)]_vars

\* C10 witness: the second render, after the counter program has run 32 cycles
C10_Witness ==
    /\ last_step.rendered
    /\ last_step.batch = 16
    /\ v_registers[0] = 16

\* C11 as stated: between two consecutive cycle batches the periphery is polled
\* exactly once, that is, every poll comes directly after the last cycle of a
\* batch and never after a pass of the pacer that found the frame not yet due.
C11_SampledOncePerFrame ==
    last_step.name = "get_input" => last_step.after = "cycle"

\* C11 amended: the periphery is polled once in every pass of the pacer, as the
\* first step of the pass, so one or more times between two consecutive batches
\* (again after each pass that ended with the frame not yet due); a render comes
\* directly after a poll, the keyboard state changes in a poll only and so never
\* during a batch: a batch uses the latest sample, taken just before the render
\* that started it.
C11_SampledEveryPass ==
    [][/\ last_step'.name = "get_input"
            => /\ last_step.name \in { "cycle", "sleep_if_needed" }
               /\ cycles_in_current_frame = CYCLES_PER_FRAME
       /\ last_step'.rendered => last_step.name = "get_input"
       /\ keyboard_input' # keyboard_input => last_step'.name = "get_input"
       /\ IsCycle => keyboard_input' = keyboard_input]_vars

\* C11 witness: a second poll within one frame, after a pass that did not render,
\* reporting a key other than the one the first poll reported
C11_Witness ==
    /\ last_step.name = "get_input"
    /\ last_step.after = "sleep_if_needed"
    /\ keyboard_input = 1

\* C12 as stated: in a pass of the pacer the order is sample, decay, render,
\* sleep; in particular a timer decay never comes after the render of its pass.
C12_DecayThenRender ==
    [][/\ last_step'.name = "tick_timers" => last_step.name = "get_input"
       /\ last_step'.name = "tick_frame" => last_step.name = "tick_timers"
       /\ last_step'.name = "sleep_if_needed" => last_step.name = "tick_frame"
       /\ (last_step'.name = "tick_timers" /\ last_step'.decayed)
            => ~(last_step.name = "tick_frame" /\ last_step.rendered)]_vars

\* C12 amended: in a pass of the pacer the order is sample, render if the frame
\* deadline has elapsed, decay if the timer deadline has elapsed, sleep; a render
\* happens in tick_frame only and a decay in tick_timers only, so within a pass
\* a decay always comes after the render, and the sleep is last.
C12_RenderThenDecay ==
    [][/\ last_step'.name = "tick_frame" <=> last_step.name = "get_input"
       /\ last_step'.name = "tick_timers" <=> last_step.name = "tick_frame"
       /\ last_step'.name = "sleep_if_needed" <=> last_step.name = "tick_timers"
       /\ last_step.name = "sleep_if_needed" => last_step'.name \in { "cycle", "get_input" }
       /\ last_step'.rendered => last_step'.name = "tick_frame"
       /\ last_step'.decayed => last_step'.name = "tick_timers"]_vars

\* C12 witness: the timers decayed in the pass whose render has just reset the
\* cycle budget
C12_Witness ==
    /\ last_step.name = "tick_timers"
    /\ last_step.decayed
    /\ last_step.after = "tick_frame"
    /\ cycles_in_current_frame = 0
    /\ batch = 0

\* the row r and column c of the sprite that the pixel p of the framebuffer
\* shows when the sprite's corner is at (Vx, Vy), each wrapped on its own axis
SpriteRow(p) == ((p \div 64) - v_registers[Y]) % 32

SpriteColumn(p) == ((p % 64) - v_registers[X]) % 64

Addressed(p) == SpriteRow(p) < fourth_nibble(Fetched) /\ SpriteColumn(p) < 8

IsDraw ==
    /\ IsCycle
    /\ first_nibble(Fetched) = 13
    /\ index_register + fourth_nibble(Fetched) - 1 <= 4095

\* C13: a draw DxyN with I + N - 1 <= 4095 turns the pixel at ((Vx + c) mod 64,
\* (Vy + r) mod 32), for each row r < N and column c < 8, into its old value XOR
\* bit 7 - c of memory[I + r], leaves every other pixel as it was, every pixel 0
\* or 1, and changes neither memory nor I nor any register but VF.
C13_SpriteXorWrap ==
    [][IsDraw
        => /\ panic'.kind = "none"
           /\ \A p \in 0..2047 :
                 /\ framebuffer'[p] \in { 0, 1 }
                 /\ framebuffer'[p] =
                       IF Addressed(p)
                       THEN (framebuffer[p]
                               + Bit(memory[index_register + SpriteRow(p)],
                                     7 - SpriteColumn(p))) % 2
                       ELSE framebuffer[p]
           /\ memory' = memory
           /\ index_register' = index_register
           /\ \A r \in 0..14 : v_registers'[r] = v_registers[r]]_vars

\* C13 witness: the glyph "0" drawn with its corner at (61, 30) shows on all four
\* corners of the screen: (61, 30), (63, 31) and, wrapped, (0, 0), (0, 2)
C13_Witness ==
    /\ last_step.name = "cycle"
    /\ last_step.opcode = Op(13, 0, 1, 5)
    /\ v_registers[0] = 61 /\ v_registers[1] = 30
    /\ framebuffer[30 * 64 + 61] = 1
    /\ framebuffer[31 * 64 + 61] = 1
    /\ framebuffer[0 * 64 + 0] = 1
    /\ framebuffer[2 * 64 + 0] = 1
    /\ framebuffer[31 * 64 + 0] = 1

\* C14: after a draw DxyN (N = 0 and x or y = 15 included) VF is 1 iff at least
\* one pixel of the framebuffer went from 1 to 0 in that draw, and 0 otherwise;
\* so a fully set 8x1 sprite drawn on a cleared screen gives VF = 0, and drawn
\* again at the same place gives VF = 1 and a cleared screen.
C14_CollisionFlag ==
    [][IsDraw
        => /\ v_registers'[15] =
                 IF \E p \in 0..2047 : framebuffer[p] = 1 /\ framebuffer'[p] = 0
                 THEN 1 ELSE 0
           /\ (fourth_nibble(Fetched) = 1 /\ memory[index_register] = 255)
                 => /\ (\A p \in 0..2047 : framebuffer[p] = 0)
                         => /\ v_registers'[15] = 0
                            /\ \A p \in 0..2047 :
                                  framebuffer'[p] = IF Addressed(p) THEN 1 ELSE 0
                    /\ (\A p \in 0..2047 : framebuffer[p] = IF Addressed(p) THEN 1 ELSE 0)
                         => /\ v_registers'[15] = 1
                            /\ \A p \in 0..2047 : framebuffer'[p] = 0]_vars

\* C14 witness: the second draw of the fully set 8x1 sprite at (61, 30) has
\* cleared the screen and set VF
C14_Witness ==
    /\ last_step.name = "cycle"
    /\ last_step.opcode = Op(13, 0, 1, 1)
    /\ program_counter = ROM_OFFSET + 12
    /\ memory[index_register] = 255
    /\ v_registers[0] = 61 /\ v_registers[1] = 30
    /\ v_registers[15] = 1
    /\ \A p \in 0..2047 : framebuffer[p] = 0

\* the programs of BlockRoms set V0, V1 and VF from their bytes 1, 3 and 5, store
\* V0..Vx, set the three registers to 7 and load V0..Vx at ROM_OFFSET + 16: after
\* that load V0..Vx are what was stored and the registers above Vx are still 7
RoundTrip ==
    (/\ Running
     /\ last_step.name = "cycle"
     /\ last_step.address = ROM_OFFSET + 16
     /\ first_nibble(last_step.opcode) = 15
     /\ lower_half(last_step.opcode) = 101)
        => LET x == second_nibble(last_step.opcode)
               was(r) == memory[ROM_OFFSET + (IF r = 0 THEN 1 ELSE IF r = 1 THEN 3 ELSE 5)]
           IN \A r \in TestRegisters : v_registers[r] = IF r <= x THEN was(r) ELSE 7

\* C15: with I + x <= 4095, store (Fx55) writes V0..Vx to memory[I..I+x] and
\* changes no other cell and no register; load (Fx65) sets V0..Vx from
\* memory[I..I+x] and changes no register above Vx and no memory; I is the same
\* after either; so a load after a store at the same I gives V0..Vx back.
C15_BlockRoundTrip ==
    /\ [][(IsCycle /\ first_nibble(Fetched) = 15 /\ index_register + X <= 4095)
           => /\ lower_half(Fetched) = 85
                   => /\ panic'.kind = "none"
                      /\ memory' = [a \in 0..4095 |->
                                       IF index_register <= a /\ a <= index_register + X
                                       THEN v_registers[a - index_register] ELSE memory[a]]
                      /\ v_registers' = v_registers
                      /\ index_register' = index_register
              /\ lower_half(Fetched) = 101
                   => /\ panic'.kind = "none"
                      /\ v_registers' = [r \in 0..15 |->
                                            IF r <= X THEN memory[index_register + r]
                                            ELSE v_registers[r]]
                      /\ memory' = memory
                      /\ index_register' = index_register]_vars
    /\ []RoundTrip

\* C15 witness: V0, V1 and VF were 255, 0, 128, were stored at 0xFF0, set to 7 and
\* loaded again with F165, which restored V0 and V1 and left VF at 7
C15_Witness ==
    /\ Running
    /\ last_step.name = "cycle"
    /\ last_step.opcode = Op(15, 1, 6, 5)
    /\ last_step.address = ROM_OFFSET + 16
    /\ index_register = MEMORY_SIZE - 16
    /\ v_registers[0] = U8_MAX /\ v_registers[1] = 0 /\ v_registers[15] = 7
    /\ memory[MEMORY_SIZE - 16] = U8_MAX

\* C16: a timer decay decrements the delay timer by exactly 1 if it is not 0 and
\* leaves it at 0 otherwise, and the same for the sound timer; no timer goes from
\* 0 to 255; a timer increases only by the write of Fx15 (delay) or Fx18 (sound);
\* a decay changes neither registers, I, memory, stack, program counter nor
\* framebuffer.
C16_TimersSaturate ==
    [][/\ last_step'.decayed
            => /\ delay_timer' = IF delay_timer = 0 THEN 0 ELSE delay_timer - 1
               /\ sound_timer' = IF sound_timer = 0 THEN 0 ELSE sound_timer - 1
               /\ UNCHANGED << v_registers, index_register, memory, stack,
                               stack_pointer, program_counter, framebuffer >>
       /\ delay_timer' \in 0..255 /\ sound_timer' \in 0..255
       /\ delay_timer' > delay_timer => IsCycle /\ FetchedIs(15, 21)
       /\ sound_timer' > sound_timer => IsCycle /\ FetchedIs(15, 24)
       /\ delay_timer' < delay_timer
            => \/ last_step'.decayed
               \/ IsCycle /\ FetchedIs(15, 21)
       /\ sound_timer' < sound_timer
            => \/ last_step'.decayed
               \/ IsCycle /\ FetchedIs(15, 24)]_vars

\* C16 witness: a decay found both timers at 0 and left them there; the program
\* had set both to 3 and has since read the delay timer as 0 into V1
C16_Witness ==
    /\ last_step.name = "tick_timers"
    /\ last_step.decayed
    /\ v_registers[0] = 3
    /\ v_registers[1] = 0
    /\ delay_timer = 0
    /\ sound_timer = 0
    /\ ~sound_playing

\* the conditional skips and whether the skip is taken; for Ex9E and ExA1 the
\* condition is the one of the code, the key latch against Vx
IsSkip == first_nibble(Fetched) \in { 3, 4, 5, 9, 14 }

Taken ==
    \/ first_nibble(Fetched) = 3 /\ v_registers[X] = lower_half(Fetched)
    \/ first_nibble(Fetched) = 4 /\ v_registers[X] # lower_half(Fetched)
    \/ first_nibble(Fetched) = 5 /\ v_registers[X] = v_registers[Y]
    \/ first_nibble(Fetched) = 9 /\ v_registers[X] # v_registers[Y]
    \/ FetchedIs(14, 158) /\ keyboard_input = v_registers[X]
    \/ FetchedIs(14, 161) /\ keyboard_input # v_registers[X]

\* C17: after a cycle that ran a defined instruction the program counter is NNN
\* for 1NNN and 2NNN, NNN + V0 for BNNN, the return address of the newest
\* outstanding call for 00EE, pc + 4 for a taken and pc + 2 for a not-taken skip
\* (3xNN taken iff Vx = NN, 4xNN iff Vx # NN, 5xy0 iff Vx = Vy, 9xy0 iff
\* Vx # Vy), pc for a key-wait with no key observed (the latest sample was
\* "none", or no sample has been taken yet), and pc + 2 for every other
\* instruction.
C17_ProgramCounterRule ==
    [][(IsCycle /\ panic'.kind = "none" /\ ~(Fetched = 238 /\ Len(calls) = 0))
        => program_counter' =
              IF first_nibble(Fetched) \in { 1, 2 } THEN lower_three(Fetched)
              ELSE IF first_nibble(Fetched) = 11 THEN lower_three(Fetched) + v_registers[0]
              ELSE IF Fetched = 238 THEN Head(calls).ret
              ELSE IF IsSkip THEN (IF Taken THEN program_counter + 4 ELSE program_counter + 2)
              ELSE IF FetchedIs(15, 10) /\ (keyboard_input = NO_KEY \/ ~sampled)
                   THEN program_counter
              ELSE program_counter + 2]_vars

\* C18: loading a ROM of n bytes at 0x200 succeeds iff 0x200 + n <= 4096; on
\* success memory[0x200 + i] = rom[i] for every i < n and every other cell is as
\* it was, the font table at 0x50..0x9F and the cells below 0x200 among them; on
\* failure the process stops with no memory cell written; no cycle runs before
\* the load or after a failed load.
C18_RomLoading ==
    /\ [][last_step'.name = "load_rom"
            => LET n == Len(rom)
               IN /\ panic'.kind = "none" <=> 512 + n <= 4096
                  /\ panic'.kind = "none"
                        => /\ \A a \in 0..4095 :
                                 memory'[a] = IF 512 <= a /\ a < 512 + n
                                              THEN rom[a - 512 + 1] ELSE memory[a]
                           /\ \A a \in 0..79 : memory'[80 + a] = fontset[a + 1]
                           /\ \A a \in 0..511 : memory'[a] = memory[a]
                  /\ panic'.kind # "none" => memory' = memory]_vars
    /\ [][IsCycle => last_step.name # "default" /\ rom = << >> /\ panic.kind = "none"]_vars
    /\ [](panic.kind = "rom_too_large" => last_step.name = "load_rom")

\* C18 witness: the largest ROM that fits, 3584 bytes, is loaded: its last byte is
\* in the last cell of memory, the cell below 0x200 and the font table are intact
C18_Witness ==
    /\ Running
    /\ last_step.name = "load_rom"
    /\ memory[MEMORY_SIZE - 1] = U8_MAX
    /\ memory[ROM_OFFSET] = 18
    /\ memory[ROM_OFFSET - 1] = 0
    /\ memory[FONTSET_OFFSET] = fontset[1]

\* the time that passed at the clock reading of tick_frame (tick_frame leaves the
\* timer deadline where it is, so its distance shrinks by the time that passed),
\* and how late after its deadline a render came
Elapsed == next_timer_tick - next_timer_tick'

Lateness == Elapsed - next_frame_tick

\* C19: frames keep the cadence of one per frame interval (120 in 2 seconds):
\* after the first render, a render never comes less than one frame interval
\* after the render before it, and the lateness of a render does not accumulate,
\* that is, it does not move the deadlines that follow: the next deadline is one
\* frame interval after the deadline of this render.
C19_FrameCadence ==
    [][(last_step'.rendered /\ drawn)
        => /\ Lateness >= 0
           /\ next_frame_tick' = FRAME_INTERVAL - Lateness]_vars

\* C20: for every word w = a*4096 + b*256 + c*16 + d built from nibbles a, b, c, d
\* the decoder gives first_nibble(w) = a, second_nibble(w) = b, third_nibble(w) = c,
\* fourth_nibble(w) = d, lower_half(w) = c*16 + d and lower_three(w) =
\* b*256 + c*16 + d.
C20_DecoderRoundTrip ==
    decoded # NotDecoded
        => \E a \in 0..15 :
              /\ decoded.first_nibble = a
              /\ \E b \in 0..15 :
                    /\ decoded.second_nibble = b
                    /\ \E c \in 0..15 :
                          /\ decoded.third_nibble = c
                          /\ \E d \in 0..15 :
                                /\ decoded.fourth_nibble = d
                                /\ decoded.word = a * 4096 + b * 256 + c * 16 + d
                                /\ decoded.lower_half = c * 16 + d
                                /\ decoded.lower_three = b * 256 + c * 16 + d

\* C20 witness: 0xABCD is decoded to A, B, C, D, 0xCD and 0xBCD
C20_Witness ==
    /\ decoded.word = 43981
    /\ decoded.first_nibble = 10
    /\ decoded.second_nibble = 11
    /\ decoded.third_nibble = 12
    /\ decoded.fourth_nibble = 13
    /\ decoded.lower_half = 205
    /\ decoded.lower_three = 3021

\* the keys a poll can report, as key codes
HeldKeys == 0..MaxPolledKey

\* from some point on every input poll returns key k
KeyHeld(k) == <>[][last_step'.name = "get_input" => keyboard_input' = k]_vars

\* the machine is about to execute Fx0A
AtKeyWait ==
    /\ Running
    /\ run_pc # "load"
    /\ FetchInBounds(State)
    /\ first_nibble(fetch(State)) = 15
    /\ lower_half(fetch(State)) = 10

\* the last step was an Fx0A that stored key k in Vx and advanced by 2
Completed(k) ==
    /\ last_step.name = "cycle"
    /\ last_step.opcode # NO_OPCODE
    /\ first_nibble(last_step.opcode) = 15
    /\ lower_half(last_step.opcode) = 10
    /\ program_counter = last_step.address + 2
    /\ v_registers[second_nibble(last_step.opcode)] = k

\* C21: if from some point on every input poll returns the same key k in 0..15,
\* then, time advancing, a machine at key-wait (Fx0A) eventually completes the
\* instruction with Vx = k and the program counter advanced by 2; and a machine
\* that stays at key-wait for ever renders and decays its timers infinitely often.
C21_KeyWaitLiveness ==
    /\ \A k \in HeldKeys : KeyHeld(k) => <>[](AtKeyWait => <>Completed(k))
    /\ <>[]AtKeyWait => ([]<>last_step.rendered /\ []<>last_step.decayed)

\* C21 witness: an Fx0A has just spun on an empty key latch, after input has been
\* sampled and a frame rendered
C21_Witness ==
    /\ AtKeyWait
    /\ keyboard_input = NO_KEY
    /\ sampled
    /\ drawn
    /\ last_step.name = "cycle"
    /\ last_step.opcode = fetch(State)
    /\ last_step.address = program_counter

\* the key with code `value` is the key observed as pressed: input has been
\* sampled and the latest sample reported that key
Pressed(value) == sampled /\ keyboard_input # NO_KEY /\ keyboard_input = value

SkipIfPressed == 158

SkipIfNotPressed == 161

\* the cycle being taken executes ExNN for the given NN
IsKeySkip(nn) ==
    /\ last_step'.name = "cycle"
    /\ last_step'.opcode # NO_OPCODE
    /\ first_nibble(last_step'.opcode) = 14
    /\ lower_half(last_step'.opcode) = nn
    /\ panic'.kind = "none"

\* C22: Ex9E advances the program counter by 4 iff the key with code Vx is the
\* key observed as pressed, and by 2 otherwise; ExA1 is the complement. While no
\* key is pressed (latest sample none, or no sample yet) Ex9E never skips and ExA1
\* always skips, whatever Vx holds.
C22_KeySkips ==
    [][LET vx == v_registers[second_nibble(last_step'.opcode)]
       IN /\ IsKeySkip(SkipIfPressed)
               => program_counter' = program_counter + (IF Pressed(vx) THEN 4 ELSE 2)
          /\ IsKeySkip(SkipIfNotPressed)
               => program_counter' = program_counter + (IF Pressed(vx) THEN 2 ELSE 4)]_vars

\* C23: the tone is started only by an Fx18 that writes a non-zero value to the
\* sound timer, and in every state reached by a timer-decay step the tone is
\* playing only if the sound timer is non-zero: the decay that brings the sound
\* timer to 0, or finds it at 0, leaves the tone stopped.
C23_ToneFollowsSoundTimer ==
    [][/\ (sound_playing' /\ ~sound_playing)
            => IsCycle /\ FetchedIs(15, 24) /\ sound_timer' # 0
       /\ last_step'.decayed => (sound_playing' => sound_timer' # 0)]_vars

ClearScreen == 224

Return == 238

\* C24: of the opcodes with top nibble 0, 00E0 sets all 64*32 pixels to 0 and
\* 00EE returns; every other 0NNN, 0000 from zero-filled memory included, is never
\* treated as an unknown opcode: it advances the program counter by 2 and changes
\* no register, memory cell, stack slot, timer or pixel. A program counter in
\* zero-filled memory steps by 2 without halting until a fetch leaves 0..4095.
C24_TopNibbleZero ==
    [][IsCycle =>
          /\ Fetched = NO_OPCODE => program_counter + 1 > MEMORY_SIZE - 1
          /\ (Fetched # NO_OPCODE /\ first_nibble(Fetched) = 0) =>
                /\ panic'.kind # "unknown_opcode"
                /\ Fetched = ClearScreen =>
                      /\ \A p \in 0..(SCREEN_WIDTH * SCREEN_HEIGHT - 1) : framebuffer'[p] = 0
                      /\ program_counter' = program_counter + 2
                      /\ panic'.kind = "none"
                      /\ UNCHANGED << memory, stack, stack_pointer, v_registers,
                                      index_register, delay_timer, sound_timer >>
                /\ (Fetched = Return /\ Len(calls) > 0 /\ panic'.kind = "none") =>
                      /\ program_counter' = calls[1].ret
                      /\ UNCHANGED << memory, stack, v_registers, index_register,
                                      delay_timer, sound_timer, framebuffer >>
                /\ Fetched \notin { ClearScreen, Return } =>
                      /\ program_counter' = program_counter + 2
                      /\ panic'.kind = "none"
                      /\ UNCHANGED << memory, stack, stack_pointer, v_registers,
                                      index_register, delay_timer, sound_timer,
                                      framebuffer, sound_playing >>]_vars

\* C24 witness: the machine has stepped over the last word of the zero-filled
\* memory and is still running, with the program counter past the last address
C24_Witness ==
    /\ Running
    /\ last_step.name = "cycle"
    /\ last_step.opcode = 0
    /\ last_step.address = MEMORY_SIZE - 2
    /\ program_counter = MEMORY_SIZE

====
